---- MODULE Spec2Model ----
(***************************************************************************)
(* eq ("jq for EDN"): the expression parser (parse.rs), the operation set  *)
(* and the batch driver (transform.rs) and the run of main (main.rs).      *)
(*                                                                         *)
(* A Value is a record with the same five fields for every variant:        *)
(*   tag    the variant, one of the 13 of edn::Value                       *)
(*   n      the payload of Boolean (0/1), Char (code point), Integer and   *)
(*          Float (the float n/10); 0 otherwise                            *)
(*   s      the bytes of String, Symbol, Keyword and of a Tagged's tag     *)
(*   items  the elements of List, Vector, Set (ascending), the keys of a   *)
(*          Map (ascending) and the one nested value of a Tagged           *)
(*   vals   the values of a Map, vals[i] belonging to the key items[i]     *)
(* Bytes are their ASCII codes.                                            *)
(***************************************************************************)
EXTENDS Integers, Sequences, FiniteSets, TLC

\* ------------------------------------------------------------------------
\* Bounds of the model
\* ------------------------------------------------------------------------
MaxExprLen == 2
MaxForms == 2
MaxPipeline == 2
MaxSeqLen == 2
MaxMapLen == 2
MaxFragments == 4

\* ------------------------------------------------------------------------
\* edn::Value
\* ------------------------------------------------------------------------
Variants ==
    <<"Nil", "Boolean", "String", "Char", "Symbol", "Keyword", "Integer",
      "Float", "List", "Vector", "Map", "Set", "Tagged">>

MkValue(t, n, s, items, vals) ==
    [tag |-> t, n |-> n, s |-> s, items |-> items, vals |-> vals]

NilValue == MkValue("Nil", 0, <<>>, <<>>, <<>>)
BooleanValue(b) == MkValue("Boolean", b, <<>>, <<>>, <<>>)
StringValue(s) == MkValue("String", 0, s, <<>>, <<>>)
CharValue(c) == MkValue("Char", c, <<>>, <<>>, <<>>)
SymbolValue(s) == MkValue("Symbol", 0, s, <<>>, <<>>)
KeywordValue(s) == MkValue("Keyword", 0, s, <<>>, <<>>)
IntegerValue(i) == MkValue("Integer", i, <<>>, <<>>, <<>>)
FloatValue(f) == MkValue("Float", f, <<>>, <<>>, <<>>)
ListValue(xs) == MkValue("List", 0, <<>>, xs, <<>>)
VectorValue(xs) == MkValue("Vector", 0, <<>>, xs, <<>>)
TaggedValue(t, v) == MkValue("Tagged", 0, t, <<v>>, <<>>)
EmptyMap == MkValue("Map", 0, <<>>, <<>>, <<>>)
EmptySet == MkValue("Set", 0, <<>>, <<>>, <<>>)

\* The position of a variant in the declaration of edn::Value, which is the
\* first thing the derived order compares.
VariantRank(t) == CHOOSE i \in 1..Len(Variants) : Variants[i] = t

Sign(d) == IF d < 0 THEN -1 ELSE IF d > 0 THEN 1 ELSE 0

RECURSIVE BytesCmp(_, _)
BytesCmp(a, b) ==
    IF a = <<>> /\ b = <<>> THEN 0
    ELSE IF a = <<>> THEN -1
    ELSE IF b = <<>> THEN 1
    ELSE IF a[1] # b[1] THEN Sign(a[1] - b[1])
    ELSE BytesCmp(Tail(a), Tail(b))

\* Keys and values of a Map as the sequence k1, v1, k2, v2, ... its entries
\* are compared in.
RECURSIVE Interleave(_, _)
Interleave(ks, vs) ==
    IF ks = <<>> THEN <<>>
    ELSE <<ks[1], vs[1]>> \o Interleave(Tail(ks), Tail(vs))

\* The canonical total order of Values: -1, 0 or 1.
RECURSIVE ValueCmp(_, _)
RECURSIVE ValueSeqCmp(_, _)
ValueCmp(a, b) ==
    IF a.tag # b.tag THEN Sign(VariantRank(a.tag) - VariantRank(b.tag))
    ELSE IF a.n # b.n THEN Sign(a.n - b.n)
    ELSE IF BytesCmp(a.s, b.s) # 0 THEN BytesCmp(a.s, b.s)
    ELSE IF a.tag = "Map"
         THEN ValueSeqCmp(Interleave(a.items, a.vals), Interleave(b.items, b.vals))
    ELSE ValueSeqCmp(a.items, b.items)

ValueSeqCmp(xs, ys) ==
    IF xs = <<>> /\ ys = <<>> THEN 0
    ELSE IF xs = <<>> THEN -1
    ELSE IF ys = <<>> THEN 1
    ELSE IF ValueCmp(xs[1], ys[1]) # 0 THEN ValueCmp(xs[1], ys[1])
    ELSE ValueSeqCmp(Tail(xs), Tail(ys))

\* The number of leading elements of the ascending sequence xs that are
\* smaller than x.
RECURSIVE CountBelow(_, _)
CountBelow(xs, x) ==
    IF xs = <<>> \/ ValueCmp(xs[1], x) >= 0 THEN 0
    ELSE 1 + CountBelow(Tail(xs), x)

InsertAt(xs, i, x) == SubSeq(xs, 1, i - 1) \o <<x>> \o SubSeq(xs, i, Len(xs))
ReplaceAt(xs, i, x) == [xs EXCEPT ![i] = x]

\* BTreeMap::insert: the entry goes to its place in key order; an equal key
\* keeps its place and gets the new value.
MapInsert(m, k, v) ==
    LET i == CountBelow(m.items, k) + 1
    IN IF i <= Len(m.items) /\ ValueCmp(m.items[i], k) = 0
       THEN [m EXCEPT !.vals = ReplaceAt(m.vals, i, v)]
       ELSE [m EXCEPT !.items = InsertAt(m.items, i, k),
                      !.vals = InsertAt(m.vals, i, v)]

\* BTreeSet::insert: an element already present is not added again.
SetInsert(st, x) ==
    LET i == CountBelow(st.items, x) + 1
    IN IF i <= Len(st.items) /\ ValueCmp(st.items[i], x) = 0
       THEN st
       ELSE [st EXCEPT !.items = InsertAt(st.items, i, x)]

RECURSIVE MapFromPairs(_)
MapFromPairs(ps) ==
    IF ps = <<>> THEN EmptyMap
    ELSE MapInsert(MapFromPairs(SubSeq(ps, 1, Len(ps) - 1)),
                   ps[Len(ps)][1], ps[Len(ps)][2])

RECURSIVE SetFromSeq(_)
SetFromSeq(xs) ==
    IF xs = <<>> THEN EmptySet
    ELSE SetInsert(SetFromSeq(SubSeq(xs, 1, Len(xs) - 1)), xs[Len(xs)])

\* BTreeMap::get: the value of the entry whose key compares equal, if any.
MapIndex(m, k) ==
    LET i == CountBelow(m.items, k) + 1
    IN IF i <= Len(m.items) /\ ValueCmp(m.items[i], k) = 0 THEN i ELSE 0

\* ------------------------------------------------------------------------
\* transform.rs: the operations
\* ------------------------------------------------------------------------
value_type_name(value) ==
    CASE value.tag = "Nil" -> "nil"
      [] value.tag = "Boolean" -> "a boolean"
      [] value.tag = "String" -> "a string"
      [] value.tag = "Char" -> "a character"
      [] value.tag = "Symbol" -> "a symbol"
      [] value.tag = "Keyword" -> "a keyword"
      [] value.tag = "Integer" -> "an integer"
      [] value.tag = "Float" -> "a float"
      [] value.tag = "List" -> "a list"
      [] value.tag = "Vector" -> "a vector"
      [] value.tag = "Map" -> "a map"
      [] value.tag = "Set" -> "a set"
      [] value.tag = "Tagged" -> "a tagged"

\* OperationResult = Result<Value, OperationError>. An OperationError holds the
\* formatted message, kept as the pieces format! joins.
Ok(v) == [ok |-> TRUE, val |-> v, err |-> <<>>]
Err(msg) == [ok |-> FALSE, val |-> NilValue, err |-> msg]

CanNotApply(name, value) ==
    <<"Can not apply '", name, "' operation to ", value_type_name(value)>>

\* An Operation (a Box<dyn Operation>): key is the key of a Get, inner holds
\* the one operation a Map owns.
IdentityOperation == [op |-> "Identity", key |-> NilValue, inner |-> <<>>]
KeysOperation == [op |-> "Keys", key |-> NilValue, inner |-> <<>>]
ValuesOperation == [op |-> "Values", key |-> NilValue, inner |-> <<>>]
GetOperation(key) == [op |-> "Get", key |-> key, inner |-> <<>>]
MapOperation(o) == [op |-> "Map", key |-> NilValue, inner |-> <<o>>]

\* IdentityExecute that hands back Nil for a Tagged value.
IdentityExecuteDropsTagged(input) == IF input.tag = "Tagged" THEN Ok(NilValue) ELSE Ok(input)

IdentityExecute(input) == Ok(input)

KeysExecute(input) ==
    IF input.tag = "Map" THEN Ok(VectorValue(input.items))
    ELSE Err(CanNotApply("keys", input))

RECURSIVE Reverse(_)
Reverse(xs) == IF xs = <<>> THEN <<>> ELSE Append(Reverse(Tail(xs)), xs[1])

\* ValuesExecute with the values taken from the last entry to the first.
ValuesExecuteReversed(input) ==
    IF input.tag = "Map" THEN Ok(VectorValue(Reverse(input.vals)))
    ELSE Err(CanNotApply("values", input))

ValuesExecute(input) ==
    IF input.tag = "Map" THEN Ok(VectorValue(input.vals))
    ELSE Err(CanNotApply("values", input))

\* GetExecute with a missing key turned into an error.
GetExecuteAbsentFails(key, input) ==
    IF input.tag = "Map" /\ MapIndex(input, key) # 0
    THEN Ok(input.vals[MapIndex(input, key)])
    ELSE Err(CanNotApply("get", input))

GetExecute(key, input) ==
    IF input.tag = "Map"
    THEN IF MapIndex(input, key) # 0
         THEN Ok(input.vals[MapIndex(input, key)])
         ELSE Ok(NilValue)
    ELSE Err(CanNotApply("get", input))

RECURSIVE execute(_, _)
RECURSIVE do_map_fold(_, _, _)

\* do_map_fold with each result put in front of the ones before it.
RECURSIVE do_map_fold_prepend(_, _, _)
do_map_fold_prepend(o, state, input) ==
    IF input = <<>> THEN Ok(VectorValue(state))
    ELSE LET r == execute(o, input[1])
         IN IF r.ok THEN do_map_fold_prepend(o, <<r.val>> \o state, Tail(input))
            ELSE r

\* do_map_fold with a failing element left out instead of ending the fold.
RECURSIVE do_map_fold_skip_failed(_, _, _)
do_map_fold_skip_failed(o, state, input) ==
    IF input = <<>> THEN Ok(VectorValue(state))
    ELSE LET r == execute(o, input[1])
         IN do_map_fold_skip_failed(o, IF r.ok THEN Append(state, r.val) ELSE state,
                                    Tail(input))

\* try_fold of do_map: state is the Vec built so far, input what is left.
do_map_fold(o, state, input) ==
    IF input = <<>> THEN Ok(VectorValue(state))
    ELSE LET r == execute(o, input[1])
         IN IF r.ok THEN do_map_fold(o, Append(state, r.val), Tail(input))
            ELSE r

do_map(o, input) == do_map_fold(o, <<>>, input)

\* MapExecute that also takes a Map, mapping over its values.
MapExecuteAlsoMaps(o, input) ==
    IF input.tag \in {"List", "Vector", "Set"} THEN do_map(o, input.items)
    ELSE IF input.tag = "Map" THEN do_map(o, input.vals)
    ELSE Err(CanNotApply("get", input))

MapExecute(o, input) ==
    IF input.tag \in {"List", "Vector", "Set"} THEN do_map(o, input.items)
    ELSE Err(CanNotApply("get", input))

\* The dynamic dispatch of Operation::execute.
execute(o, input) ==
    CASE o.op = "Identity" -> IdentityExecute(input)
      [] o.op = "Keys" -> KeysExecute(input)
      [] o.op = "Values" -> ValuesExecute(input)
      [] o.op = "Get" -> GetExecute(o.key, input)
      [] o.op = "Map" -> MapExecute(o.inner[1], input)

\* transform_form with every operation applied to the form itself, the last
\* result returned.
RECURSIVE transform_form_fan_out(_, _)
transform_form_fan_out(form, operations) ==
    IF operations = <<>> THEN Ok(form)
    ELSE LET r == execute(operations[1], form)
         IN IF r.ok /\ Len(operations) > 1
            THEN transform_form_fan_out(form, Tail(operations))
            ELSE r

\* try_fold of transform_form over the operations of the pipeline.
RECURSIVE transform_form(_, _)
transform_form(form, operations) ==
    IF operations = <<>> THEN Ok(form)
    ELSE LET r == execute(operations[1], form)
         IN IF r.ok THEN transform_form(r.val, Tail(operations))
            ELSE r

\* The stub: the expression is not looked at.
parse_transform(transform) == <<IdentityOperation>>

\* ------------------------------------------------------------------------
\* parse.rs: the nom parsers over &[u8]. A parser returns Ok with the rest of
\* the input and the operation, Error when it does not match, or Incomplete
\* when the input ends before the parser can decide.
\* ------------------------------------------------------------------------
ParseOk(rest, o) == [kind |-> "Ok", rest |-> rest, op |-> <<o>>, bytes |-> <<>>]
ParseOkBytes(rest, b) == [kind |-> "Ok", rest |-> rest, op |-> <<>>, bytes |-> b]
ParseError == [kind |-> "Error", rest |-> <<>>, op |-> <<>>, bytes |-> <<>>]
ParseIncomplete == [kind |-> "Incomplete", rest |-> <<>>, op |-> <<>>, bytes |-> <<>>]

AsciiWhitespace == {9, 10, 12, 13, 32}

is_whitespace(c) == c \in AsciiWhitespace \/ c = 44

isnt_whitespace(c) == ~is_whitespace(c)

keyword_to_get_op(kw) == GetOperation(KeywordValue(kw))

\* The length of the longest prefix of input made of non-whitespace bytes.
RECURSIVE TokenLen(_)
TokenLen(input) ==
    IF input = <<>> \/ ~isnt_whitespace(input[1]) THEN 0
    ELSE 1 + TokenLen(Tail(input))

\* identity that takes every '.' at the head of the input.
RECURSIVE DotsLen(_)
DotsLen(input) == IF input = <<>> \/ input[1] # 46 THEN 0 ELSE 1 + DotsLen(Tail(input))

identity_greedy(input) ==
    IF input = <<>> THEN ParseIncomplete
    ELSE IF input[1] = 46
         THEN ParseOk(SubSeq(input, DotsLen(input) + 1, Len(input)), IdentityOperation)
    ELSE ParseError

\* value!(IdentityOperation, char!('.'))
identity(input) ==
    IF input = <<>> THEN ParseIncomplete
    ELSE IF input[1] = 46 THEN ParseOk(Tail(input), IdentityOperation)
    ELSE ParseError

\* keyword with take_while! in place of take_while1!: an empty token passes.
keyword_empty_token(input) ==
    IF input = <<>> THEN ParseIncomplete
    ELSE IF input[1] # 58 THEN ParseError
    ELSE LET after == Tail(input)
             n == TokenLen(after)
         IN IF n = Len(after) THEN ParseIncomplete
            ELSE ParseOk(SubSeq(after, n + 1, Len(after)),
                         keyword_to_get_op(SubSeq(after, 1, n)))

\* map!(preceded!(char!(':'), take_while1!(isnt_whitespace)), keyword_to_get_op):
\* take_while1! needs a byte that ends the token to return it.
keyword(input) ==
    IF input = <<>> THEN ParseIncomplete
    ELSE IF input[1] # 58 THEN ParseError
    ELSE LET after == Tail(input)
             n == TokenLen(after)
         IN IF n = Len(after) THEN ParseIncomplete
            ELSE IF n = 0 THEN ParseError
            ELSE ParseOk(SubSeq(after, n + 1, Len(after)),
                         keyword_to_get_op(SubSeq(after, 1, n)))

\* tag!("map("): Error at the first byte that differs, Incomplete when the
\* input ends inside the tag.
MapTag == <<109, 97, 112, 40>>

tag_map(input) ==
    LET n == IF Len(input) < Len(MapTag) THEN Len(input) ELSE Len(MapTag)
    IN IF SubSeq(input, 1, n) # SubSeq(MapTag, 1, n) THEN ParseError
       ELSE IF Len(input) < Len(MapTag) THEN ParseIncomplete
       ELSE ParseOkBytes(SubSeq(input, Len(MapTag) + 1, Len(input)), MapTag)

\* delimited!(tag!("map("), take_while1!(isnt_whitespace), char!(')')): the
\* bytes between the delimiters. It is no alternative of expr.
map(input) ==
    IF tag_map(input).kind # "Ok" THEN tag_map(input)
    ELSE LET after == tag_map(input).rest
             n == TokenLen(after)
             rest == SubSeq(after, n + 1, Len(after))
         IN IF n = Len(after) THEN ParseIncomplete
            ELSE IF n = 0 THEN ParseError
            ELSE IF rest = <<>> THEN ParseIncomplete
            ELSE IF rest[1] = 41 THEN ParseOkBytes(Tail(rest), SubSeq(after, 1, n))
            ELSE ParseError

\* alt!(identity | keyword): the next alternative is tried on Error only.
expr(input) ==
    IF identity(input).kind # "Error" THEN identity(input)
    ELSE keyword(input)

\* ------------------------------------------------------------------------
\* input.rs: serde_json values and their conversion to edn values
\* ------------------------------------------------------------------------
\* The width of i64 and u64, scaled down: i64 holds I64Min..I64Max and u64
\* holds 0..U64Max.
IntBits == 4
I64Max == 2^(IntBits - 1) - 1
I64Min == -(2^(IntBits - 1))
U64Max == 2^IntBits - 1

\* serde_json::Value. A Number is PosInt(u64), NegInt(i64) or Float(f64); an
\* Object holds its members in ascending key order.
MkJson(kind, repr, n, s, keys, items) ==
    [kind |-> kind, repr |-> repr, n |-> n, s |-> s, keys |-> keys, items |-> items]

JsonNull == MkJson("Null", "", 0, <<>>, <<>>, <<>>)
JsonBool(b) == MkJson("Bool", "", IF b THEN 1 ELSE 0, <<>>, <<>>, <<>>)
JsonString(s) == MkJson("String", "", 0, s, <<>>, <<>>)
PosInt(v) == MkJson("Number", "PosInt", v, <<>>, <<>>, <<>>)
NegInt(v) == MkJson("Number", "NegInt", v, <<>>, <<>>, <<>>)
JsonFloat(f) == MkJson("Number", "Float", f, <<>>, <<>>, <<>>)
JsonObject(keys, items) == MkJson("Object", "", 0, <<>>, keys, items)
JsonArray(items) == MkJson("Array", "", 0, <<>>, <<>>, items)

Some(v) == [some |-> TRUE, v |-> v]
None == [some |-> FALSE, v |-> 0]

\* Number::is_i64, is_u64, is_f64 and as_i64 as json_to_edn calls them.
is_i64(j) == (j.repr = "PosInt" /\ j.n <= I64Max) \/ j.repr = "NegInt"
is_u64(j) == j.repr = "PosInt"
is_f64(j) == j.repr = "Float"
as_i64(j) ==
    IF j.repr = "PosInt" THEN (IF j.n <= I64Max THEN Some(j.n) ELSE None)
    ELSE IF j.repr = "NegInt" THEN Some(j.n)
    ELSE None

\* What a call of json_to_edn comes to: the value it returns or a panic, and
\* the JSON values it printed on the way.
Converted(v, seen) == [panic |-> FALSE, val |-> v, seen |-> seen]
Panicked(seen) == [panic |-> TRUE, val |-> NilValue, seen |-> seen]

\* Option::unwrap of as_i64, handed to EdnValue::from.
UnwrapInteger(opt, seen) ==
    IF opt.some THEN Converted(IntegerValue(opt.v), seen) ELSE Panicked(seen)

RECURSIVE json_to_edn(_)
RECURSIVE json_members(_, _, _, _)
json_to_edn(json) ==
    LET seen == <<json>>
    IN CASE json.kind = "Null" -> Converted(NilValue, seen)
         [] json.kind = "Bool" -> Converted(BooleanValue(json.n = 1), seen)
         [] json.kind = "String" -> Converted(StringValue(json.s), seen)
         [] json.kind = "Number" ->
               IF is_i64(json) THEN UnwrapInteger(as_i64(json), seen)
               ELSE IF is_u64(json) THEN UnwrapInteger(as_i64(json), seen)
               ELSE IF is_f64(json) THEN Converted(FloatValue(json.n), seen)
               ELSE Panicked(seen)
         [] json.kind = "Object" -> json_members(json, 1, EmptyMap, seen)
         [] json.kind = "Array" -> json_members(json, 1, VectorValue(<<>>), seen)

\* The for loops over the members of an Object or the items of an Array.
json_members(json, i, acc, seen) ==
    IF i > Len(json.items) THEN Converted(acc, seen)
    ELSE LET r == json_to_edn(json.items[i])
         IN IF r.panic THEN Panicked(seen \o r.seen)
            ELSE json_members(json, i + 1,
                              IF json.kind = "Object"
                              THEN MapInsert(acc, StringValue(json.keys[i]), r.val)
                              ELSE VectorValue(Append(acc.items, r.val)),
                              seen \o r.seen)

\* ------------------------------------------------------------------------
\* The universes the inputs are drawn from
\* ------------------------------------------------------------------------
SeqsUpTo(S, n) == UNION {[1..k -> S] : k \in 0..n}

KwA == KeywordValue(<<97>>)
KwB == KeywordValue(<<98>>)
KwC == KeywordValue(<<99>>)
StrA == StringValue(<<97>>)
Int1 == IntegerValue(1)
Int2 == IntegerValue(2)
MapA1B2 == MapFromPairs(<<<<KwA, Int1>>, <<KwB, Int2>>>>)
MapA1 == MapFromPairs(<<<<KwA, Int1>>>>)
MapA2 == MapFromPairs(<<<<KwA, Int2>>>>)

Scalars ==
    {NilValue, BooleanValue(0), BooleanValue(1), StrA, CharValue(97),
     SymbolValue(<<120>>), KwA, KwB, Int1, Int2, FloatValue(15)}

MapKeys == {KwA, KwB, StrA, Int1}
MapVals == {Int1, Int2, NilValue, KwA}
Maps == {MapFromPairs(ps) : ps \in SeqsUpTo(MapKeys \X MapVals, MaxMapLen)}

Elems ==
    {Int1, Int2, KwA, EmptyMap, MapA1, MapA1B2,
     VectorValue(<<Int1>>), VectorValue(<<MapA1>>)}
ElemSeqs == SeqsUpTo(Elems, MaxSeqLen)

Values ==
    Scalars \cup Maps
    \cup {ListValue(xs) : xs \in ElemSeqs}
    \cup {VectorValue(xs) : xs \in ElemSeqs}
    \cup {SetFromSeq(xs) : xs \in ElemSeqs}
    \cup {TaggedValue(<<116>>, Int1), TaggedValue(<<116>>, EmptyMap)}

BaseOps ==
    {IdentityOperation, KeysOperation, ValuesOperation}
    \cup {GetOperation(k) : k \in {KwA, KwB, KwC, Int1}}
Ops ==
    BaseOps \cup {MapOperation(o) : o \in BaseOps}
    \cup {MapOperation(MapOperation(o)) : o \in {IdentityOperation, GetOperation(KwA)}}

\* The forms and pipelines of the batch runs.
MapAMapA1 == MapFromPairs(<<<<KwA, MapA1>>>>)
BatchForms ==
    {MapA1B2, MapA2, MapAMapA1, Int1, VectorValue(<<MapA1, MapA2>>),
     VectorValue(<<MapA1, Int2>>)}
PipeOps ==
    {IdentityOperation, GetOperation(KwA), KeysOperation,
     MapOperation(GetOperation(KwA))}
Pipelines == SeqsUpTo(PipeOps, MaxPipeline)

\* The JSON documents of the runs of main.
JsonDocs ==
    {PosInt(1), JsonObject(<<<<97>>>>, <<PosInt(1)>>),
     JsonArray(<<PosInt(1), PosInt(2)>>), PosInt(I64Max + 1)}

\* What the file at opts.input.path holds, as read_file sees it: EDN forms or
\* one JSON document.
FileOk(format, forms) == [format |-> format, err |-> "None", forms |-> forms]
FileBad(format, e) == [format |-> format, err |-> e, forms |-> <<>>]
Files ==
    {FileOk("EDN", fs) : fs \in SeqsUpTo(BatchForms, MaxForms)}
    \cup {FileOk("JSON", <<j>>) : j \in JsonDocs}
    \cup {FileBad(f, e) : f \in {"EDN", "JSON"}, e \in {"IOError", "ParseError"}}

ExprBytes == {46, 58, 97, 32, 44, 120}
Expressions == SeqsUpTo(ExprBytes, MaxExprLen)

\* ------------------------------------------------------------------------
\* main.rs: one run of the program
\* ------------------------------------------------------------------------
VARIABLES
    pc,          \* where the run is: "main", "transform", "fold", "match", "done"
    expression,  \* opts.transform.expression
    file,        \* what read_file finds at opts.input.path
    forms,       \* the forms read_file returned
    operations,  \* the pipeline transform_edn folds with
    idx,         \* the index of the next form of the batch
    acc,         \* the Vec of transformed forms built so far
    output,      \* main's output: Result<Vec<Value>, ApplicationError>
    stdout,      \* the lines and forms written to standard output
    sink,        \* the arguments of the calls of format_output
    exit,        \* "running", "ok" (main returned) or "panic"
    parsed       \* the parser applied to the expression and what it returned

vars ==
    <<pc, expression, file, forms, operations, idx, acc, output, stdout, sink, exit,
      parsed>>

\* No parser has run: main.rs does not reach parse.rs.
NotParsed == [by |-> "none", res |-> ParseError]
Parsed(by, res) == [by |-> by, res |-> res]

Pending == [kind |-> "Pending", forms |-> <<>>, err |-> <<>>]
OutputOk(fs) == [kind |-> "Ok", forms |-> fs, err |-> <<>>]
ReadErr(e) == [kind |-> "Read", forms |-> <<>>, err |-> <<e>>]
OperationErr(msg) == [kind |-> "Operation", forms |-> <<>>, err |-> msg]

Line(what, text, form) == [line |-> what, text |-> text, form |-> form]

\* json_to_edn prints every JSON value it converts, a container before its
\* members.
JsonLines(seen) == [i \in 1..Len(seen) |-> Line("json", <<"json: ">>, seen[i])]

FormLines(fs) == [i \in 1..Len(fs) |-> Line("form", <<>>, fs[i])]

\* input::read_file and the or_else of main that wraps its error.
ReadFile ==
    /\ pc = "main"
    /\ IF file.err # "None"
       THEN /\ output' = ReadErr(file.err)
            /\ pc' = "match"
            /\ UNCHANGED <<forms, stdout, exit>>
       ELSE IF file.format = "JSON"
       THEN LET r == json_to_edn(file.forms[1])
            IN /\ stdout' = stdout \o JsonLines(r.seen)
               /\ IF r.panic
                  THEN /\ exit' = "panic"
                       /\ pc' = "done"
                       /\ UNCHANGED forms
                  ELSE /\ forms' = <<r.val>>
                       /\ pc' = "transform"
                       /\ UNCHANGED exit
               /\ UNCHANGED output
       ELSE /\ forms' = file.forms
            /\ pc' = "transform"
            /\ UNCHANGED <<output, stdout, exit>>
    /\ UNCHANGED <<expression, parsed, file, operations, idx, acc, sink>>

\* transform_edn up to its fold: the pipeline parse_transform returns.
ParseTransform ==
    /\ pc = "transform"
    /\ operations' = parse_transform(expression)
    /\ idx' = 1
    /\ acc' = <<>>
    /\ pc' = "fold"
    /\ UNCHANGED <<expression, parsed, file, forms, output, stdout, sink, exit>>

\* transform_edn entered with the pipeline ops in place of the stub's.
TransformWith ==
    /\ pc = "transform"
    /\ \E ops \in Pipelines : operations' = ops
    /\ idx' = 1
    /\ acc' = <<>>
    /\ pc' = "fold"
    /\ UNCHANGED <<expression, parsed, file, forms, output, stdout, sink, exit>>

\* FoldStep with a failing form left out of the result instead of ending
\* the fold.
FoldStepSkipFailed ==
    /\ pc = "fold"
    /\ idx <= Len(forms)
    /\ LET r == transform_form(forms[idx], operations)
       IN /\ acc' = IF r.ok THEN Append(acc, r.val) ELSE acc
          /\ idx' = idx + 1
    /\ UNCHANGED <<pc, output, expression, parsed, file, forms, operations, stdout, sink, exit>>

\* One step of the try_fold of transform_edn: the next form goes through
\* transform_form; an error ends the fold and drops acc.
FoldStep ==
    /\ pc = "fold"
    /\ idx <= Len(forms)
    /\ LET r == transform_form(forms[idx], operations)
       IN IF r.ok
          THEN /\ acc' = Append(acc, r.val)
               /\ idx' = idx + 1
               /\ UNCHANGED <<pc, output>>
          ELSE /\ output' = OperationErr(r.err)
               /\ acc' = <<>>
               /\ pc' = "match"
               /\ UNCHANGED idx
    /\ UNCHANGED <<expression, parsed, file, forms, operations, stdout, sink, exit>>

\* The fold has taken every form: transform_edn returns Ok(acc).
FoldDone ==
    /\ pc = "fold"
    /\ idx > Len(forms)
    /\ output' = OutputOk(acc)
    /\ pc' = "match"
    /\ UNCHANGED <<expression, parsed, file, forms, operations, idx, acc, stdout, sink, exit>>

\* format_output(p).expect(..): write_forms writes the forms one by one; a
\* write that fails after `wrote` forms makes expect panic.
FormatOutput(p) ==
    /\ sink' = Append(sink, p)
    /\ \E wrote \in 0..Len(p) :
          /\ stdout' = stdout \o FormLines(SubSeq(p, 1, wrote))
          /\ exit' = IF wrote = Len(p) THEN "ok" ELSE "panic"

\* MatchOutput with the forms read handed to format_output when the
\* transform failed.
MatchOutputWritesOnError ==
    /\ pc = "match"
    /\ pc' = "done"
    /\ CASE output.kind = "Ok" -> FormatOutput(output.forms)
         [] output.kind = "Read" ->
                /\ stdout' = Append(stdout, Line("FATAL", <<"FATAL: ">> \o output.err, NilValue))
                /\ exit' = "ok"
                /\ UNCHANGED sink
         [] output.kind = "Operation" -> FormatOutput(forms)
    /\ UNCHANGED <<expression, parsed, file, forms, operations, idx, acc, output>>

\* The match on output that ends main.
MatchOutput ==
    /\ pc = "match"
    /\ pc' = "done"
    /\ CASE output.kind = "Ok" -> FormatOutput(output.forms)
         [] output.kind = "Read" ->
                /\ stdout' = Append(stdout, Line("FATAL", <<"FATAL: ">> \o output.err, NilValue))
                /\ exit' = "ok"
                /\ UNCHANGED sink
         [] output.kind = "Operation" ->
                /\ exit' = "ok"
                /\ UNCHANGED <<stdout, sink>>
    /\ UNCHANGED <<expression, parsed, file, forms, operations, idx, acc, output>>

InitRun ==
    /\ pc = "main"
    /\ forms = <<>>
    /\ operations = <<>>
    /\ idx = 1
    /\ acc = <<>>
    /\ output = Pending
    /\ stdout = <<>>
    /\ sink = <<>>
    /\ exit = "running"
    /\ parsed = NotParsed

\* The program as it is.
Init ==
    /\ InitRun
    /\ expression \in Expressions
    /\ file \in Files

Next == ReadFile \/ ParseTransform \/ FoldStep \/ FoldDone \/ MatchOutput

Spec == Init /\ [][Next]_vars

\* The run of main over every pipeline transform_edn can be handed.
InitOps ==
    /\ InitRun
    /\ expression = <<58, 97>>
    /\ file \in Files

NextOps == ReadFile \/ TransformWith \/ FoldStep \/ FoldDone \/ MatchOutput

SpecOps == InitOps /\ [][NextOps]_vars

\* One operation executed on one value, through transform_form.
InitExec ==
    /\ pc = "fold"
    /\ expression = <<>>
    /\ file = FileOk("EDN", <<>>)
    /\ forms \in {<<v>> : v \in Values}
    /\ operations \in {<<o>> : o \in Ops}
    /\ idx = 1
    /\ acc = <<>>
    /\ output = Pending
    /\ stdout = <<>>
    /\ sink = <<>>
    /\ exit = "running"
    /\ parsed = NotParsed

NextExec == FoldStep \/ FoldDone

SpecExec == InitExec /\ [][NextExec]_vars

\* The JSON documents read_file is run on: the scalars, with the numbers at
\* the edges of i64 and u64, and the arrays and objects over them.
JsonScalars ==
    {JsonNull, JsonBool(TRUE), JsonString(<<97>>), JsonFloat(15),
     PosInt(0), PosInt(1), PosInt(I64Max), PosInt(I64Max + 1), PosInt(U64Max),
     NegInt(-1), NegInt(I64Min)}
JsonValues ==
    JsonScalars
    \cup {JsonArray(xs) : xs \in SeqsUpTo(JsonScalars, MaxSeqLen)}
    \cup {JsonObject(<<<<97>>>>, <<x>>) : x \in JsonScalars}

\* read_file on a JSON file.
InitJson ==
    /\ InitRun
    /\ expression = <<46>>
    /\ file \in {FileOk("JSON", <<j>>) : j \in JsonValues}
                \cup {FileBad("JSON", e) : e \in {"IOError", "ParseError"}}

NextJson == ReadFile

SpecJson == InitJson /\ [][NextJson]_vars

\* The inputs of the parsers: up to MaxFragments pieces of expression text.
Fragments ==
    {<<46>>, <<58>>, <<97>>, <<32>>, <<44>>, <<120>>, <<109>>, <<41>>, MapTag}

RECURSIVE Flatten(_)
Flatten(ps) == IF ps = <<>> THEN <<>> ELSE ps[1] \o Flatten(Tail(ps))

ParseInputs == {Flatten(ps) : ps \in SeqsUpTo(Fragments, MaxFragments)}

\* A parser of parse.rs applied to the bytes of an expression.
Unparsed ==
    /\ pc = "parse"
    /\ pc' = "parsed"
    /\ UNCHANGED <<expression, file, forms, operations, idx, acc, output, stdout,
                   sink, exit>>

ParseIdentity == Unparsed /\ parsed' = Parsed("identity", identity(expression))

ParseKeyword == Unparsed /\ parsed' = Parsed("keyword", keyword(expression))

ParseMap == Unparsed /\ parsed' = Parsed("map", map(expression))

ParseExpr == Unparsed /\ parsed' = Parsed("expr", expr(expression))

InitParse ==
    /\ pc = "parse"
    /\ expression \in ParseInputs
    /\ file = FileOk("EDN", <<>>)
    /\ forms = <<>>
    /\ operations = <<>>
    /\ idx = 1
    /\ acc = <<>>
    /\ output = Pending
    /\ stdout = <<>>
    /\ sink = <<>>
    /\ exit = "running"
    /\ parsed = NotParsed

NextParse == ParseIdentity \/ ParseKeyword \/ ParseMap \/ ParseExpr

SpecParse == InitParse /\ [][NextParse]_vars

\* ------------------------------------------------------------------------
\* Claims
\* ------------------------------------------------------------------------
Returned == pc \in {"match", "done"}

\* The results of the pipeline on each form of the batch, form by form.
PerForm == [i \in 1..Len(forms) |-> transform_form(forms[i], operations)]
Failing == {i \in 1..Len(forms) : ~PerForm[i].ok}
FirstFailing == CHOOSE i \in Failing : \A j \in Failing : i <= j

\* An expression the parser does not take whole: it is empty, the parser
\* does not return Ok on it, or bytes are left after the step.
Malformed(e) == e = <<>> \/ expr(e).kind # "Ok" \/ expr(e).rest # <<>>

\* C1: the operation the parser produces for the expression is what
\* transform_edn applies to each form; with expression ":a" and the one form
\* {:a 1, :b 2} the output is the one form 1.
C1_ParsedExpressionDrives ==
    (Returned /\ output.kind = "Ok") =>
       /\ ~Malformed(expression) =>
             /\ Len(output.forms) = Len(forms)
             /\ \A i \in 1..Len(forms) :
                   execute(expr(expression).op[1], forms[i]) = Ok(output.forms[i])
       /\ (expression = <<58, 97>> /\ forms = <<MapA1B2>>) => output.forms = <<Int1>>

\* C2: the batch is all-or-nothing and fail-fast: when the pipeline succeeds
\* on every form the result is Ok of the transformed forms, same length and
\* order; otherwise it is the error of the lowest-index failing form and
\* holds none of the forms transformed before it.
C2_BatchAllOrNothing ==
    (Returned /\ output.kind \in {"Ok", "Operation"}) =>
       IF Failing = {}
       THEN output = OutputOk([i \in 1..Len(forms) |-> PerForm[i].val])
       ELSE /\ output = OperationErr(PerForm[FirstFailing].err)
            /\ output.forms = <<>>
            /\ acc = <<>>

\* A batch whose second form fails after the first was transformed.
C2_Witness ==
    /\ pc = "done"
    /\ output.kind = "Operation"
    /\ Len(forms) = 2
    /\ PerForm[1].ok
    /\ operations # <<>>

\* C3: a malformed expression is refused before evaluation: the run does not
\* end in an Ok sequence of forms and no form is evaluated.
C3_MalformedRefused ==
    Malformed(expression) =>
       /\ output.kind # "Ok"
       /\ idx = 1
       /\ acc = <<>>

\* C4: a run that failed with an OperationError shows it: main reports the
\* failure, and what the caller sees differs from a successful run over zero
\* forms (nothing written, normal return).
FailureSurfaced ==
    \/ exit = "panic"
    \/ \E i \in 1..Len(stdout) : stdout[i].line \notin {"json", "form"}

C4_OperationErrorSurfaced ==
    (pc = "done" /\ output.kind = "Operation") =>
       /\ FailureSurfaced
       /\ <<stdout, exit>> # <<<<>>, "ok">>

\* C5: format_output is called at most once, only after reading and the
\* whole batch succeeded, with the full ordered sequence of transformed
\* forms; when reading or a form's evaluation fails it is never called and no
\* form is emitted.
FormsWritten == SelectSeq(stdout, LAMBDA l : l.line = "form")

C5_SinkOnlyOnSuccess ==
    /\ Len(sink) <= 1
    /\ Len(sink) = 1 =>
          /\ pc = "done"
          /\ file.err = "None"
          /\ Failing = {}
          /\ sink[1] = [i \in 1..Len(forms) |-> PerForm[i].val]
    /\ (file.err # "None" \/ (Returned /\ Failing # {})) =>
          /\ sink = <<>>
          /\ FormsWritten = <<>>
    /\ sink = <<>> => FormsWritten = <<>>
    /\ Len(sink) = 1 =>
          FormsWritten = FormLines(SubSeq(sink[1], 1, Len(FormsWritten)))

\* format_output was called with two forms a pipeline transformed.
C5_Witness ==
    /\ pc = "done"
    /\ Len(sink) = 1
    /\ Len(sink[1]) = 2
    /\ sink[1] # forms
    /\ exit = "ok"

\* The one operation and the one input of an execution.
TheOp == operations[1]
TheInput == forms[1]
Executed == pc = "match" /\ Len(operations) = 1 /\ Len(forms) = 1

\* The entries of a Map, as key/value pairs.
Entries(m) == {<<m.items[j], m.vals[j]>> : j \in 1..Len(m.items)}

\* C6: Get on a Map never fails: it returns the value the map associates
\* with the key when the key is a key of the map, and Nil when it is not.
C6_GetOnMap ==
    (Executed /\ TheOp.op = "Get" /\ TheInput.tag = "Map") =>
       /\ output.kind = "Ok"
       /\ Len(output.forms) = 1
       /\ \A e \in Entries(TheInput) : e[1] = TheOp.key => output.forms[1] = e[2]
       /\ (\A e \in Entries(TheInput) : e[1] # TheOp.key) => output.forms[1] = NilValue

\* Get of a key that a non-empty map does not hold returned Nil.
C6_Witness ==
    /\ Executed
    /\ TheOp.op = "Get"
    /\ TheInput.tag = "Map"
    /\ Len(TheInput.items) = 2
    /\ \A e \in Entries(TheInput) : e[1] # TheOp.key
    /\ output = OutputOk(<<NilValue>>)

\* The message of a type mismatch: the fixed words and the name of the type
\* of the value the operation was given.
IsTypeMismatch(msg, value) ==
    /\ Len(msg) = 4
    /\ msg[1] = "Can not apply '"
    /\ msg[3] = "' operation to "
    /\ msg[4] = value_type_name(value)

\* C7: Get, Keys and Values fail on every input that is not a Map and succeed
\* on every Map; Map(inner) fails with its own type mismatch, whatever inner
\* is, on every input that is not a List, Vector or Set.
C7_FailsOutsideVariants ==
    Executed =>
       /\ TheOp.op \in {"Get", "Keys", "Values"} =>
             IF TheInput.tag = "Map" THEN output.kind = "Ok"
             ELSE /\ output.kind = "Operation"
                  /\ IsTypeMismatch(output.err, TheInput)
       /\ (TheOp.op = "Map" /\ TheInput.tag \notin {"List", "Vector", "Set"}) =>
             /\ output.kind = "Operation"
             /\ IsTypeMismatch(output.err, TheInput)

\* Map of an operation that cannot fail was refused a Map value.
C7_Witness ==
    /\ Executed
    /\ TheOp = MapOperation(IdentityOperation)
    /\ TheInput.tag = "Map"
    /\ Len(TheInput.items) = 2
    /\ output.kind = "Operation"

OperationName(o) ==
    CASE o.op = "Get" -> "get"
      [] o.op = "Keys" -> "keys"
      [] o.op = "Values" -> "values"
      [] o.op = "Map" -> "map"
      [] o.op = "Identity" -> "identity"

\* The operation was given a value of a variant it does not accept.
Mismatched(o, value) ==
    \/ o.op \in {"Get", "Keys", "Values"} /\ value.tag # "Map"
    \/ o.op = "Map" /\ value.tag \notin {"List", "Vector", "Set"}

\* C8: the message of a type mismatch names the operation that was applied
\* ('get', 'keys', 'values', 'map') followed by the describe name of the
\* input's variant.
C8_MessageNamesOperation ==
    (Executed /\ Mismatched(TheOp, TheInput)) =>
       /\ output.kind = "Operation"
       /\ IsTypeMismatch(output.err, TheInput)
       /\ output.err[2] = OperationName(TheOp)

IsAscending(xs) == \A i \in 1..(Len(xs) - 1) : ValueCmp(xs[i], xs[i + 1]) < 0

\* C9: Keys and Values of a Map are Vectors as long as the map has entries,
\* the keys strictly ascending in canonical order, and at every index the key
\* and the value are an entry of the map.
C9_KeysValuesAligned ==
    (Executed /\ TheOp.op \in {"Keys", "Values"} /\ TheInput.tag = "Map") =>
       /\ output.kind = "Ok"
       /\ Len(output.forms) = 1
       /\ LET out == output.forms[1]
              ks == IF TheOp.op = "Keys" THEN out ELSE KeysExecute(TheInput).val
              vs == IF TheOp.op = "Values" THEN out ELSE ValuesExecute(TheInput).val
          IN /\ out.tag = "Vector"
             /\ out = VectorValue(out.items)
             /\ Len(ks.items) = Cardinality(Entries(TheInput))
             /\ Len(vs.items) = Cardinality(Entries(TheInput))
             /\ IsAscending(ks.items)
             /\ \A i \in 1..Len(ks.items) :
                   <<ks.items[i], vs.items[i]>> \in Entries(TheInput)

\* Values of a map of two entries with different values.
C9_Witness ==
    /\ Executed
    /\ TheOp.op = "Values"
    /\ TheInput.tag = "Map"
    /\ output.kind = "Ok"
    /\ Len(output.forms[1].items) = 2
    /\ output.forms[1].items[1] # output.forms[1].items[2]

\* C10: Map over a List or Vector on whose elements the inner operation
\* succeeds is the Vector of the results, same length and order; over a Set
\* the elements are taken in ascending canonical order and the results kept
\* in that order.
InnerResults == [i \in 1..Len(TheInput.items) |-> execute(TheOp.inner[1], TheInput.items[i])]

C10_MapPreservesOrder ==
    (/\ Executed
     /\ TheOp.op = "Map"
     /\ TheInput.tag \in {"List", "Vector", "Set"}
     /\ \A i \in 1..Len(TheInput.items) : InnerResults[i].ok) =>
       /\ TheInput.tag = "Set" => IsAscending(TheInput.items)
       /\ output =
             OutputOk(<<VectorValue([i \in 1..Len(TheInput.items) |-> InnerResults[i].val])>>)

\* Map of a Get over a List of two maps gave two different results.
C10_Witness ==
    /\ Executed
    /\ TheOp = MapOperation(GetOperation(KwA))
    /\ TheInput.tag = "List"
    /\ output.kind = "Ok"
    /\ output.forms[1].tag = "Vector"
    /\ Len(output.forms[1].items) = 2
    /\ output.forms[1].items[1] # output.forms[1].items[2]

\* The elements of the input collection on which the inner operation fails.
InnerFailing == {i \in 1..Len(TheInput.items) : ~InnerResults[i].ok}
FirstInnerFailing == CHOOSE i \in InnerFailing : \A j \in InnerFailing : i <= j

\* C11: when the inner operation fails on an element of the collection, Map
\* returns exactly the error of the first failing element in iteration order
\* and no Vector, whatever the elements before and after it are.
C11_MapAbortsOnFirstFailure ==
    (/\ Executed
     /\ TheOp.op = "Map"
     /\ TheInput.tag \in {"List", "Vector", "Set"}
     /\ InnerFailing # {}) =>
       /\ output = OperationErr(InnerResults[FirstInnerFailing].err)
       /\ output.kind = "Operation"
       /\ output.forms = <<>>

\* Map of a Get over two elements that both fail, with different errors: the
\* error is that of the first.
C11_Witness ==
    /\ Executed
    /\ TheOp = MapOperation(GetOperation(KwA))
    /\ TheInput.tag = "Vector"
    /\ Len(TheInput.items) = 2
    /\ InnerFailing = {1, 2}
    /\ InnerResults[1].err # InnerResults[2].err
    /\ output = OperationErr(InnerResults[1].err)

\* C17: Identity returns its input unchanged and never fails, for a Value of
\* any of the 13 variants.
C17_IdentityUnchanged ==
    (Executed /\ TheOp.op = "Identity") =>
       /\ output = OutputOk(<<TheInput>>)
       /\ value_type_name(output.forms[1]) = value_type_name(TheInput)

\* Identity was executed on a Tagged value that holds a Map.
C17_Witness ==
    /\ Executed
    /\ TheOp = IdentityOperation
    /\ TheInput = TaggedValue(<<116>>, EmptyMap)
    /\ output = OutputOk(<<TheInput>>)

\* What the first k steps of a pipeline make of a form: step k applied to
\* what the k - 1 steps before it returned, or their error.
RECURSIVE StepsTo(_, _, _)
StepsTo(form, ops, k) ==
    IF k = 0 THEN Ok(form)
    ELSE LET prev == StepsTo(form, ops, k - 1)
         IN IF prev.ok THEN execute(ops[k], prev.val) ELSE prev

\* C12: a pipeline is left-to-right composition: every transformed form is
\* what the last step returns on the output of the steps before it; when a
\* step is the first to fail its error is the result; the empty pipeline
\* returns the form unchanged.
C12_PipelineComposes ==
    /\ \A i \in 1..Len(acc) :
          /\ Ok(acc[i]) = StepsTo(forms[i], operations, Len(operations))
          /\ operations = <<>> => acc[i] = forms[i]
    /\ (Returned /\ output.kind = "Ok") =>
          /\ Len(output.forms) = Len(forms)
          /\ \A i \in 1..Len(forms) :
                Ok(output.forms[i]) = StepsTo(forms[i], operations, Len(operations))
    /\ (Returned /\ output.kind = "Operation") =>
          \E k \in 1..Len(operations) :
             /\ \A j \in 0..(k - 1) : StepsTo(forms[idx], operations, j).ok
             /\ ~execute(operations[k], StepsTo(forms[idx], operations, k - 1).val).ok
             /\ output.err =
                   execute(operations[k], StepsTo(forms[idx], operations, k - 1).val).err

\* A pipeline of two lookups took a form through both steps.
C12_Witness ==
    /\ pc = "done"
    /\ operations = <<GetOperation(KwA), GetOperation(KwA)>>
    /\ forms = <<MapAMapA1>>
    /\ output = OutputOk(<<Int1>>)

\* The parser `by` has been applied to the expression.
ParsedBy(by) == pc = "parsed" /\ parsed.by = by

\* The expression is ':' t r with t its bytes 2..k+1, a non-empty run of
\* non-whitespace bytes, and r what follows, empty or led by a whitespace byte.
IsKeywordSplit(e, k) ==
    /\ k >= 1
    /\ k + 1 <= Len(e)
    /\ e[1] = 58
    /\ \A j \in 2..(k + 1) : ~is_whitespace(e[j])
    /\ (k + 1 = Len(e) \/ is_whitespace(e[k + 2]))

\* C13: on every input ':' t r the keyword parser yields Get(Keyword(t)) and
\* leaves exactly r, also when r is empty (":abc" at the end of the input).
C13_KeywordLookup ==
    ParsedBy("keyword") =>
       \A k \in 1..Len(expression) :
          IsKeywordSplit(expression, k) =>
             parsed.res = ParseOk(SubSeq(expression, k + 2, Len(expression)),
                                  GetOperation(KeywordValue(SubSeq(expression, 2, k + 1))))

\* The expression e parses, whole, as a step.
StepOf(e) == expr(e).op[1]
IsStep(e) == expr(e).kind = "Ok" /\ expr(e).rest = <<>>

\* C14: for every expression e that parses as a step to an operation o, the
\* top-level step rule parses 'map(' e ')' to a Map operation that owns o
\* (so "map(.)" to Map(Identity) and "map(:a)" to Map(Get(:a))); 'map(' e
\* without the closing ')' is a parse failure.
C14_MappedStep ==
    ParsedBy("expr") =>
       /\ \A n \in 0..(Len(expression) - Len(MapTag)) :
             LET e == SubSeq(expression, Len(MapTag) + 1, Len(MapTag) + n)
             IN /\ (expression = MapTag \o e \o <<41>> /\ IsStep(e)) =>
                      parsed.res = ParseOk(<<>>, MapOperation(StepOf(e)))
                /\ (expression = MapTag \o e /\ IsStep(e)) => parsed.res.kind # "Ok"
       /\ expression = MapTag \o <<58, 97, 41>> =>
             parsed.res = ParseOk(<<>>, MapOperation(GetOperation(KwA)))

\* What a parser that returned Ok took from the head of the expression.
Consumed == SubSeq(expression, 1, Len(expression) - Len(parsed.res.rest))

\* C15: on every input whose first byte is '.' the identity parser yields an
\* Identity operation and leaves the input without its first byte; a parser
\* that succeeds leaves a suffix of its input and takes no more than its
\* rule matches: '.' for identity, ':' and a token for a keyword lookup.
C15_IdentityOneByte ==
    /\ (ParsedBy("identity") /\ expression # <<>> /\ expression[1] = 46) =>
          /\ parsed.res = ParseOk(Tail(expression), IdentityOperation)
          /\ Len(parsed.res.rest) = Len(expression) - 1
    /\ (pc = "parsed" /\ parsed.res.kind = "Ok") =>
          /\ Len(parsed.res.rest) < Len(expression)
          /\ expression = Consumed \o parsed.res.rest
          /\ parsed.res.op = <<IdentityOperation>> => Consumed = <<46>>
          /\ (parsed.res.op # <<>> /\ parsed.res.op[1].op = "Get") =>
                /\ Consumed = <<58>> \o parsed.res.op[1].key.s
                /\ \A j \in 2..Len(Consumed) : ~is_whitespace(Consumed[j])

\* identity on ".." left ".".
C15_Witness ==
    /\ ParsedBy("identity")
    /\ expression = <<46, 46>>
    /\ parsed.res = ParseOk(<<46>>, IdentityOperation)

\* The input starts with none of '.', ':' and a non-whitespace byte, 'map('.
NoAlternative(e) ==
    /\ ~(Len(e) >= 1 /\ e[1] = 46)
    /\ ~(Len(e) >= 2 /\ e[1] = 58 /\ ~is_whitespace(e[2]))
    /\ ~(Len(e) >= Len(MapTag) /\ SubSeq(e, 1, Len(MapTag)) = MapTag)

TheJson == file.forms[1]
ReadJson == pc # "main" /\ file.format = "JSON" /\ file.err = "None"

\* C18: json_to_edn is total on JSON numbers: for every number, those above
\* the largest i64 that fit in a u64 included, it returns an Integer or a
\* Float without panicking, and an Integer it returns equals the number.
C18_JsonNumberTotal ==
    (ReadJson /\ TheJson.kind = "Number") =>
       /\ exit # "panic"
       /\ Len(forms) = 1
       /\ forms[1].tag \in {"Integer", "Float"}
       /\ forms[1].tag = "Integer" => forms[1].n = TheJson.n

====
